---- MODULE Spec2Model ----
(***************************************************************************)
(* home-ca: a self-signed root CA and per-host server certificates, kept   *)
(* in an output directory.  The model follows src/home_ca/__main__.py,     *)
(* src/home_ca/certs.py and src/home_ca/config.py: the output directory is *)
(* a map from file names to PEM contents, main() is a sequence of steps,   *)
(* and the functions of certs.py are operators on the directory.           *)
(***************************************************************************)
EXTENDS Naturals, Sequences, FiniteSets, TLC

\* How many times main() is run over the same output directory.
MaxRuns == 2

\* certs.py: rsa.generate_private_key(public_exponent=65537, key_size=2048)
PublicExponent == 65537
KeySize == 2048

----------------------------------------------------------------------------
\* Configuration (config.py)

\* Config.ca_validity_days
ca_validity_days == 825

\* Config.server_validity_days
server_validity_days == 398

\* The keys of the 'name' mapping that generate_name reads, in reading order.
NameFields == <<"country", "state", "locality", "organization">>

\* The values a config file gives to the 'name' mapping.
NameValue == [country |-> "GB", state |-> "England", locality |-> "London", organization |-> "Home"]

\* The key sets of the 'name' mapping the config files of the model give:
\* no mapping at all, a mapping without 'organization', a complete one.
NameKeySets == {{}, {"country", "state", "locality"}, {"country", "state", "locality", "organization"}}

\* Host = namedtuple('Host', ['names', 'ip_addresses'], defaults=[[]])
Host(names, ip_addresses) == [names |-> names, ip_addresses |-> ip_addresses]

\* The 'hosts' lists the config files of the model give.
HostLists ==
    { <<>>,
      << Host(<<"foo", "alt">>, <<"10.0.0.5">>) >>,
      << Host(<<"foo", "alt">>, <<"10.0.0.5">>), Host(<<"bar">>, <<>>) >>,
      << Host(<<"ca">>, <<>>), Host(<<"bar">>, <<>>) >>,
      << Host(<<"foo">>, <<>>), Host(<<"foo", "alt">>, <<"10.0.0.5">>) >>,
      << Host(<<"bar">>, <<"bad">>), Host(<<"foo">>, <<>>) >> }

\* The primary host names that occur in HostLists.
PrimaryNames == {"foo", "bar", "ca"}

\* The strings ipaddress.ip_address accepts.
ValidIPs == {"10.0.0.5", "10.0.0.1"}

\* A parsed config file: the 'name' mapping (empty when absent), 'domain',
\* whether 'hosts' is a key of the file, and its value.
ConfigFile(keys, domain, has_hosts, hosts) ==
    [name |-> [k \in keys |-> NameValue[k]], domain |-> domain,
     has_hosts |-> has_hosts, hosts |-> hosts]

\* Config.domain: self._file.get('domain', 'local'); the model's files give none.
DefaultDomain == "local"

NoConfig == ConfigFile({}, DefaultDomain, FALSE, <<>>)

\* Config.x509_name: raises ValueError when the file has no (or an empty) 'name'.
x509_name(config) ==
    IF DOMAIN config.name = {}
    THEN [err |-> "MissingConfiguration"]
    ELSE [err |-> "none", value |-> config.name]

\* CONFIG.x509_name[key]: the property's error, or KeyError for a missing key.
x509_name_item(config, key) ==
    LET n == x509_name(config) IN
    IF n.err # "none" THEN [err |-> n.err]
    ELSE IF key \notin DOMAIN n.value THEN [err |-> "KeyError"]
    ELSE [err |-> "none", value |-> n.value[key]]

\* Config.hosts: raises ValueError when the file has no 'hosts' key.
hosts(config) ==
    IF ~config.has_hosts
    THEN [err |-> "MissingConfiguration"]
    ELSE [err |-> "none", value |-> config.hosts]

----------------------------------------------------------------------------
\* Files and PEM encodings

None == [none |-> TRUE]
Absent == [type |-> "absent"]
FileOf(blocks) == [type |-> "file", blocks |-> blocks]

CA_KEY_FILE == "ca.key.pem"
CA_CERT_FILE == "ca.cert.pem"
KeyFile(name) == name \o ".key.pem"
\* A certificate file named after the domain instead of the host.
CertFile_by_domain(name) == "local" \o ".cert.pem"

CertFile(name) == name \o ".cert.pem"
ChainFile(name) == name \o ".chain.pem"

KeyFiles == {CA_KEY_FILE} \cup {KeyFile(n) : n \in PrimaryNames}
CertFiles == {CA_CERT_FILE} \cup {CertFile(n) : n \in PrimaryNames}
ChainFiles == {ChainFile(n) : n \in PrimaryNames}
Paths == KeyFiles \cup CertFiles \cup ChainFiles

\* Path.exists
exists(files, path) == files[path] # Absent

\* open(path, 'wb') ... file.write(data)
write(files, path, blocks) == [files EXCEPT ![path] = FileOf(blocks)]

\* rsa.generate_private_key: a key no earlier call produced (fresh randomness,
\* named by when and for which file it is drawn).
generate_private_key(t, path) ==
    [alg |-> "RSA", key_size |-> KeySize, public_exponent |-> PublicExponent, id |-> <<t, path>>]

\* RSAPrivateKey.public_key
public_key(key) ==
    [alg |-> key.alg, key_size |-> key.key_size, public_exponent |-> key.public_exponent, of |-> key.id]

\* private_key.private_bytes(PEM, TraditionalOpenSSL, NoEncryption)
private_bytes(key) == << [label |-> key.alg \o " PRIVATE KEY", body |-> key] >>

\* certificate.public_bytes(Encoding.PEM)
public_bytes(cert) == << [label |-> "CERTIFICATE", body |-> cert] >>

\* serialize_certificate
serialize_certificate(cert) == public_bytes(cert)

KeyLabels == {"RSA PRIVATE KEY", "EC PRIVATE KEY", "PRIVATE KEY"}

\* The first PEM block of data whose label is in labels, if any.
FirstBlock(data, labels) ==
    LET at == {k \in 1..Len(data) : data[k].label \in labels} IN
    IF at = {} THEN [ok |-> FALSE]
    ELSE [ok |-> TRUE, value |-> data[CHOOSE k \in at : \A j \in at : k <= j].body]

\* serialization.load_pem_private_key(data, password=None)
load_pem_private_key(data) == FirstBlock(data, KeyLabels)

\* x509.load_pem_x509_certificate(data)
load_pem_x509_certificate(data) == FirstBlock(data, {"CERTIFICATE"})

\* What a function of certs.py leaves behind: the directory, the value returned
\* (None when it raises) and the error raised ("none" when it returns).
Return(files, value) == [files |-> files, ret |-> value, err |-> "none"]
Raise(files, kind) == [files |-> files, ret |-> None, err |-> kind]

----------------------------------------------------------------------------
\* certs.py

\* A generate_or_load_key that never looks for the stored key.
generate_or_load_key_regenerating(files, key_file, t) ==
    LET private_key == generate_private_key(t, key_file) IN
    Return(write(files, key_file, private_bytes(private_key)), private_key)

generate_or_load_key(files, key_file, t) ==
    IF exists(files, key_file)
    THEN LET private_key == load_pem_private_key(files[key_file].blocks) IN
         IF ~private_key.ok THEN Raise(files, "ParseFailure")
         ELSE IF private_key.value.alg # "RSA" THEN Raise(files, "InvalidKeyType")
         ELSE Return(files, private_key.value)
    ELSE LET private_key == generate_private_key(t, key_file) IN
         Return(write(files, key_file, private_bytes(private_key)), private_key)

generate_name(config, common_name) ==
    LET missing == {k \in 1..Len(NameFields) : x509_name_item(config, NameFields[k]).err # "none"} IN
    IF missing # {}
    THEN [err |-> x509_name_item(config, NameFields[CHOOSE k \in missing : \A j \in missing : k <= j]).err]
    ELSE [err |-> "none",
          value |-> [country |-> config.name["country"], state |-> config.name["state"],
                     locality |-> config.name["locality"], organization |-> config.name["organization"],
                     common_name |-> common_name]]

\* x509.BasicConstraints(ca=True, path_length=None), critical=True
BasicConstraintsCA ==
    [oid |-> "basicConstraints", critical |-> TRUE, value |-> [ca |-> TRUE, path_length |-> "None"]]

\* x509.KeyUsage(...), critical=True: the bits that are set
KeyUsageCA ==
    [oid |-> "keyUsage", critical |-> TRUE,
     value |-> [bits |-> {"digital_signature", "key_cert_sign", "crl_sign"}]]

\* x509.SubjectKeyIdentifier.from_public_key(key), critical=False
SubjectKeyIdentifier(pub) ==
    [oid |-> "subjectKeyIdentifier", critical |-> FALSE, value |-> [digest_of |-> pub]]

\* x509.SubjectAlternativeName(x509_names), critical=False
SubjectAlternativeName(x509_names) ==
    [oid |-> "subjectAltName", critical |-> FALSE, value |-> [names |-> x509_names]]

\* CertificateBuilder()...sign(key, hashes.SHA256()): the signature verifies
\* against the public key of the key that made it, and no other.
Certificate(subject, issuer, pub, serial, start, days, extensions, signing_key) ==
    [subject |-> subject, issuer |-> issuer, public_key |-> pub, serial_number |-> serial,
     not_valid_before |-> start, validity_days |-> days, extensions |-> extensions,
     signature |-> [hash |-> "SHA256", verifies_with |-> public_key(signing_key)]]

\* A root certificate signed with a key other than the one it carries.
ca_certificate_foreign_signature(subject, ca_key, t, path) ==
    Certificate(subject, subject, public_key(ca_key), <<t, path>>, t, ca_validity_days,
                << BasicConstraintsCA, KeyUsageCA, SubjectKeyIdentifier(public_key(ca_key)) >>,
                generate_private_key(t, path))

\* The certificate generate_or_load_ca_certificate builds.  Its serial number,
\* x509.random_serial_number(), is one no earlier call drew: it is named by when
\* and for which file it is drawn.
ca_certificate(subject, ca_key, t, path) ==
    Certificate(subject, subject, public_key(ca_key), <<t, path>>, t, ca_validity_days,
                << BasicConstraintsCA, KeyUsageCA, SubjectKeyIdentifier(public_key(ca_key)) >>,
                ca_key)

generate_or_load_ca_certificate(files, config, certificate_file, ca_key, t) ==
    IF exists(files, certificate_file)
    THEN LET cert == load_pem_x509_certificate(files[certificate_file].blocks) IN
         IF ~cert.ok THEN Raise(files, "ParseFailure") ELSE Return(files, cert.value)
    ELSE LET org == x509_name_item(config, "organization") IN
         IF org.err # "none" THEN Raise(files, org.err)
         ELSE LET subject == generate_name(config, org.value \o " CA") IN
              IF subject.err # "none" THEN Raise(files, subject.err)
              ELSE LET certificate == ca_certificate(subject.value, ca_key, t, certificate_file) IN
                   Return(write(files, certificate_file, public_bytes(certificate)), certificate)

\* names is a list of str and IPv4Address/IPv6Address values.
Str(s) == [kind |-> "str", v |-> s]
IPAddr(s) == [kind |-> "IPv4Address", v |-> s]

\* x509.DNSName(name) if isinstance(name, str) else x509.IPAddress(name)
x509_name_of(name) ==
    IF name.kind = "str" THEN [type |-> "DNSName", value |-> name.v]
    ELSE [type |-> "IPAddress", value |-> name.v]

\* The certificate generate_or_load_server_certificate builds.
server_certificate(subject, root_cert, root_key, host_key, names, t, path) ==
    Certificate(subject, root_cert.subject, public_key(host_key), <<t, path>>, t, server_validity_days,
                << SubjectAlternativeName([k \in 1..Len(names) |-> x509_name_of(names[k])]) >>,
                root_key)

\* A generate_or_load_server_certificate without the check of names[0].
generate_or_load_server_certificate_unchecked(files, config, certificate_file, root_cert, root_key, host_key, names, t) ==
    IF exists(files, certificate_file)
    THEN LET cert == load_pem_x509_certificate(files[certificate_file].blocks) IN
         IF ~cert.ok THEN Raise(files, "ParseFailure") ELSE Return(files, cert.value)
    ELSE LET subject == generate_name(config, names[1].v) IN
         IF subject.err # "none" THEN Raise(files, subject.err)
         ELSE LET host_cert == server_certificate(subject.value, root_cert, root_key, host_key,
                                                  names, t, certificate_file) IN
              Return(write(files, certificate_file, public_bytes(host_cert)), host_cert)

generate_or_load_server_certificate(files, config, certificate_file, root_cert, root_key, host_key, names, t) ==
    IF exists(files, certificate_file)
    THEN LET cert == load_pem_x509_certificate(files[certificate_file].blocks) IN
         IF ~cert.ok THEN Raise(files, "ParseFailure") ELSE Return(files, cert.value)
    ELSE IF names[1].kind # "str" THEN Raise(files, "InvalidInput")
    ELSE LET subject == generate_name(config, names[1].v) IN
         IF subject.err # "none" THEN Raise(files, subject.err)
         ELSE LET host_cert == server_certificate(subject.value, root_cert, root_key, host_key,
                                                  names, t, certificate_file) IN
              Return(write(files, certificate_file, public_bytes(host_cert)), host_cert)

----------------------------------------------------------------------------
\* __main__.py: main(), one step per statement

VARIABLES
    fs,          \* the output directory: file name -> Absent or its PEM blocks
    dir_exists,  \* whether the output directory exists
    now,         \* datetime.now(): the clock, which ticks once per run of main()
    CONFIG,      \* the config file of the run in progress
    pc,          \* the statement main() is at
    err,         \* the exception that ended the run, "none" if none
    ca_key, ca_cert, host_index, name, names, host_key, host_cert,  \* main()'s locals
    call,        \* the last direct call of generate_or_load_server_certificate
    workers,     \* the per-host iterations, when they run in any order
    tampered     \* how many files were deleted or placed from outside

vars == <<fs, dir_exists, now, CONFIG, pc, err, ca_key, ca_cert, host_index, name, names, host_key, host_cert,
          call, workers, tampered>>

\* What main() itself neither reads nor writes.
aux == <<call, workers, tampered>>

locals == <<ca_key, ca_cert, host_index, name, names, host_key, host_cert>>

Init ==
    /\ fs = [p \in Paths |-> Absent]
    /\ dir_exists = FALSE
    /\ now = 0
    /\ CONFIG = NoConfig
    /\ pc = "idle"
    /\ err = "none"
    /\ ca_key = None /\ ca_cert = None
    /\ host_index = 0 /\ name = "" /\ names = <<>>
    /\ host_key = None /\ host_cert = None
    /\ call = None
    /\ workers = <<>>
    /\ tampered = 0

\* The statements of the per-host loop body.
HostSteps == {"host_names", "host_key", "host_cert", "chain"}

\* The statement after the loop body for host k: the next host's, or the end.
AfterHost(k) == IF k < Len(CONFIG.hosts) THEN "host_names" ELSE "done"

\* An exception handled per host: the loop goes on with the next host.
PropagateSkippingHost(kind) ==
    /\ err' = kind
    /\ pc' = IF pc \in HostSteps THEN AfterHost(host_index) ELSE "failed"
    /\ host_index' = IF pc \in HostSteps THEN host_index + 1 ELSE host_index

\* main() catches nothing: an exception ends the run where it is raised.
Propagate(kind) ==
    /\ err' = kind
    /\ pc' = "failed"
    /\ host_index' = host_index

\* A process starts: CONFIG = Config() reads the config file, main() makes the
\* output directory if it is missing.
StartRun ==
    /\ pc = "idle"
    /\ now < MaxRuns
    /\ now' = now + 1
    /\ \E keys \in NameKeySets, has_hosts \in BOOLEAN, hs \in HostLists :
          /\ has_hosts \/ hs = <<>>
          /\ CONFIG' = ConfigFile(keys, DefaultDomain, has_hosts, hs)
    /\ dir_exists' = TRUE
    /\ pc' = "ca_key"
    /\ err' = "none"
    /\ ca_key' = None /\ ca_cert' = None
    /\ host_index' = 0 /\ name' = "" /\ names' = <<>>
    /\ host_key' = None /\ host_cert' = None
    /\ UNCHANGED fs
    /\ UNCHANGED aux

\* ca_key = certs.generate_or_load_key(output_path / 'ca.key.pem')
CaKey ==
    /\ pc = "ca_key"
    /\ LET r == generate_or_load_key(fs, CA_KEY_FILE, now) IN
       /\ fs' = r.files
       /\ IF r.err # "none"
          THEN Propagate(r.err) /\ UNCHANGED ca_key
          ELSE ca_key' = r.ret /\ pc' = "ca_cert" /\ UNCHANGED <<err, host_index>>
    /\ UNCHANGED <<dir_exists, now, CONFIG, ca_cert, name, names, host_key, host_cert>>
    /\ UNCHANGED aux

\* ca_cert = certs.generate_or_load_ca_certificate(output_path / 'ca.cert.pem', ca_key)
CaCert ==
    /\ pc = "ca_cert"
    /\ LET r == generate_or_load_ca_certificate(fs, CONFIG, CA_CERT_FILE, ca_key, now) IN
       /\ fs' = r.files
       /\ IF r.err # "none"
          THEN Propagate(r.err) /\ UNCHANGED ca_cert
          ELSE ca_cert' = r.ret /\ pc' = "hosts" /\ UNCHANGED <<err, host_index>>
    /\ UNCHANGED <<dir_exists, now, CONFIG, ca_key, name, names, host_key, host_cert>>
    /\ UNCHANGED aux

\* for host in CONFIG.hosts:
ReadHosts ==
    /\ pc = "hosts"
    /\ LET h == hosts(CONFIG) IN
       IF h.err # "none"
       THEN Propagate(h.err)
       ELSE /\ host_index' = 1
            /\ pc' = IF Len(h.value) = 0 THEN "done" ELSE "host_names"
            /\ UNCHANGED err
    /\ UNCHANGED <<fs, dir_exists, now, CONFIG, ca_key, ca_cert, name, names, host_key, host_cert>>
    /\ UNCHANGED aux

\* ipaddress.ip_address(ip): ValueError for a string that is no address.
ip_address(ip) == IF ip \in ValidIPs THEN [err |-> "none", value |-> IPAddr(ip)] ELSE [err |-> "ValueError"]

\* Host names listed bare, without the domain.
host_names_bare(config, host) ==
    IF \E k \in 1..Len(host.ip_addresses) : ip_address(host.ip_addresses[k]).err # "none"
    THEN [err |-> "ValueError"]
    ELSE [err |-> "none",
          value |-> [k \in 1..Len(host.names) |-> Str(host.names[k])]
                    \o [k \in 1..Len(host.ip_addresses) |-> ip_address(host.ip_addresses[k]).value]]

\* [f'{name}.{CONFIG.domain}' for name in host.names] + [ip_address(ip) for ip in host.ip_addresses]
host_names(config, host) ==
    IF \E k \in 1..Len(host.ip_addresses) : ip_address(host.ip_addresses[k]).err # "none"
    THEN [err |-> "ValueError"]
    ELSE [err |-> "none",
          value |-> [k \in 1..Len(host.names) |-> Str(host.names[k] \o "." \o config.domain)]
                    \o [k \in 1..Len(host.ip_addresses) |-> ip_address(host.ip_addresses[k]).value]]

\* name = host.names[0]; names = [...]
HostNames ==
    /\ pc = "host_names"
    /\ LET host == CONFIG.hosts[host_index]
           n == host_names(CONFIG, host) IN
       IF n.err # "none"
       THEN Propagate(n.err) /\ name' = host.names[1] /\ UNCHANGED names
       ELSE /\ name' = host.names[1]
            /\ names' = n.value
            /\ pc' = "host_key"
            /\ UNCHANGED <<err, host_index>>
    /\ UNCHANGED <<fs, dir_exists, now, CONFIG, ca_key, ca_cert, host_key, host_cert>>
    /\ UNCHANGED aux

\* host_key = certs.generate_or_load_key(output_path / f'{name}.key.pem')
HostKey ==
    /\ pc = "host_key"
    /\ LET r == generate_or_load_key(fs, KeyFile(name), now) IN
       /\ fs' = r.files
       /\ IF r.err # "none"
          THEN Propagate(r.err) /\ UNCHANGED host_key
          ELSE host_key' = r.ret /\ pc' = "host_cert" /\ UNCHANGED <<err, host_index>>
    /\ UNCHANGED <<dir_exists, now, CONFIG, ca_key, ca_cert, name, names, host_cert>>
    /\ UNCHANGED aux

\* host_cert = certs.generate_or_load_server_certificate(..., ca_cert, ca_key, host_key, names)
HostCert ==
    /\ pc = "host_cert"
    /\ LET r == generate_or_load_server_certificate(fs, CONFIG, CertFile(name), ca_cert, ca_key, host_key, names, now) IN
       /\ fs' = r.files
       /\ IF r.err # "none"
          THEN Propagate(r.err) /\ UNCHANGED host_cert
          ELSE host_cert' = r.ret /\ pc' = "chain" /\ UNCHANGED <<err, host_index>>
    /\ UNCHANGED <<dir_exists, now, CONFIG, ca_key, ca_cert, name, names, host_key>>
    /\ UNCHANGED aux

\* A chain file with the host's certificate first.
chain_file_leaf_first(files, path, root_cert, leaf_cert) ==
    IF exists(files, path) THEN files
    ELSE write(files, path, serialize_certificate(leaf_cert) \o serialize_certificate(root_cert))

\* if not chain_file.exists(): write serialize(ca_cert), then serialize(host_cert)
write_chain_if_absent(files, path, root_cert, leaf_cert) ==
    IF exists(files, path) THEN files
    ELSE write(files, path, serialize_certificate(root_cert) \o serialize_certificate(leaf_cert))

\* The chain file of the host, and on to the next host.
Chain ==
    /\ pc = "chain"
    /\ fs' = write_chain_if_absent(fs, ChainFile(name), ca_cert, host_cert)
    /\ host_index' = host_index + 1
    /\ pc' = AfterHost(host_index)
    /\ UNCHANGED <<dir_exists, now, CONFIG, err, ca_key, ca_cert, name, names, host_key, host_cert>>
    /\ UNCHANGED aux

\* The process ends, normally or with the exception's traceback.
Exit ==
    /\ pc \in {"done", "failed"}
    /\ pc' = "idle"
    /\ UNCHANGED <<fs, dir_exists, now, CONFIG, err, locals>>
    /\ UNCHANGED aux

Next == StartRun \/ CaKey \/ CaCert \/ ReadHosts \/ HostNames \/ HostKey \/ HostCert \/ Chain \/ Exit

Spec == Init /\ [][Next]_vars

----------------------------------------------------------------------------
\* The output directory between runs: files deleted or placed from outside

\* How many times a file is deleted or placed from outside.
MaxExternal == 2

\* A key that is not an RSA key.
ForeignKey == [alg |-> "EC", key_size |-> 256, public_exponent |-> 0, id |-> <<0, "outside">>]

\* What is placed from outside: an EC key where a key is looked for, a file that
\* holds no PEM block (a truncated write) where a certificate is looked for.
ForeignFile(path) == IF path \in KeyFiles THEN FileOf(private_bytes(ForeignKey)) ELSE FileOf(<<>>)

ExternalDelete ==
    /\ pc = "idle"
    /\ tampered < MaxExternal
    /\ \E p \in KeyFiles \cup CertFiles :
          /\ exists(fs, p)
          /\ fs' = [fs EXCEPT ![p] = Absent]
    /\ tampered' = tampered + 1
    /\ UNCHANGED <<dir_exists, now, CONFIG, pc, err, locals, call, workers>>

ExternalWrite ==
    /\ pc = "idle"
    /\ dir_exists
    /\ tampered < MaxExternal
    /\ \E p \in KeyFiles \cup CertFiles :
          /\ ~exists(fs, p)
          /\ fs' = [fs EXCEPT ![p] = ForeignFile(p)]
    /\ tampered' = tampered + 1
    /\ UNCHANGED <<dir_exists, now, CONFIG, pc, err, locals, call, workers>>

NextEnv == Next \/ ExternalDelete \/ ExternalWrite

\* main() run again and again over a directory that is also changed from outside.
SpecEnv == Init /\ [][NextEnv]_vars

----------------------------------------------------------------------------
\* generate_or_load_server_certificate called directly

\* The names lists of the direct calls.
DirectNames ==
    { << IPAddr("10.0.0.1") >>,
      << IPAddr("10.0.0.1"), Str("foo.local") >>,
      << Str("baz.local"), IPAddr("10.0.0.1") >> }

\* A call with the root key, root certificate and host key the last run left.
CallServerCertificate ==
    /\ pc = "idle"
    /\ ca_key # None /\ ca_cert # None /\ host_key # None
    /\ \E n \in PrimaryNames, ns \in DirectNames :
          LET r == generate_or_load_server_certificate(fs, CONFIG, CertFile(n), ca_cert, ca_key, host_key, ns, now) IN
          /\ fs' = r.files
          /\ call' = [certificate_file |-> CertFile(n), names |-> ns, ret |-> r.ret, err |-> r.err]
    /\ UNCHANGED <<dir_exists, now, CONFIG, pc, err, locals, workers, tampered>>

NextApi == Next \/ CallServerCertificate

SpecApi == Init /\ [][NextApi]_vars

----------------------------------------------------------------------------
\* The per-host iterations of main() run in any order

\* One iteration of the loop body, from the directory it finds.
HostIteration(files, config, root_cert, root_key, host, t) ==
    LET n == host_names(config, host) IN
    IF n.err # "none" THEN [files |-> files, host_key |-> None, host_cert |-> None, err |-> n.err]
    ELSE LET k == generate_or_load_key(files, KeyFile(host.names[1]), t) IN
         IF k.err # "none" THEN [files |-> k.files, host_key |-> None, host_cert |-> None, err |-> k.err]
         ELSE LET c == generate_or_load_server_certificate(k.files, config, CertFile(host.names[1]),
                                                           root_cert, root_key, k.ret, n.value, t) IN
              IF c.err # "none" THEN [files |-> c.files, host_key |-> k.ret, host_cert |-> None, err |-> c.err]
              ELSE [files |-> write_chain_if_absent(c.files, ChainFile(host.names[1]), root_cert, c.ret),
                    host_key |-> k.ret, host_cert |-> c.ret, err |-> "none"]

\* The loop of main() from host k on, in input order, up to the first exception.
RECURSIVE InInputOrder(_, _, _, _, _, _)
InInputOrder(files, config, root_cert, root_key, k, t) ==
    IF k > Len(config.hosts) THEN [files |-> files, results |-> <<>>, err |-> "none"]
    ELSE LET r == HostIteration(files, config, root_cert, root_key, config.hosts[k], t) IN
         IF r.err # "none" THEN [files |-> r.files, results |-> <<r>>, err |-> r.err]
         ELSE LET rest == InInputOrder(r.files, config, root_cert, root_key, k + 1, t) IN
              [files |-> rest.files, results |-> <<r>> \o rest.results, err |-> rest.err]

Worker(at, wname, wnames, wkey, wcert, werr) ==
    [pc |-> at, name |-> wname, names |-> wnames, host_key |-> wkey, host_cert |-> wcert, err |-> werr]

\* for host in CONFIG.hosts: one iteration per host is started, on the directory as it is.
Fork ==
    /\ pc = "hosts"
    /\ LET h == hosts(CONFIG) IN
       IF h.err # "none"
       THEN Propagate(h.err) /\ UNCHANGED workers
       ELSE /\ pc' = "forked"
            /\ workers' = [from |-> fs,
                           w |-> [k \in 1..Len(h.value) |-> Worker("host_names", "", <<>>, None, None, "none")]]
            /\ UNCHANGED <<err, host_index>>
    /\ UNCHANGED <<fs, dir_exists, now, CONFIG, ca_key, ca_cert, name, names, host_key, host_cert, call, tampered>>

Running(k) == pc = "forked" /\ k \in DOMAIN workers.w

SetWorker(k, w) == workers' = [workers EXCEPT !.w[k] = w]

WorkerNames(k) ==
    /\ Running(k) /\ workers.w[k].pc = "host_names"
    /\ LET host == CONFIG.hosts[k]
           me == workers.w[k]
           n == host_names(CONFIG, host) IN
       IF n.err # "none"
       THEN SetWorker(k, [me EXCEPT !.pc = "failed", !.name = host.names[1], !.err = n.err])
       ELSE SetWorker(k, [me EXCEPT !.pc = "host_key", !.name = host.names[1], !.names = n.value])
    /\ UNCHANGED <<fs, dir_exists, now, CONFIG, pc, err, locals, call, tampered>>

WorkerKey(k) ==
    /\ Running(k) /\ workers.w[k].pc = "host_key"
    /\ LET me == workers.w[k]
           r == generate_or_load_key(fs, KeyFile(me.name), now) IN
       /\ fs' = r.files
       /\ IF r.err # "none"
          THEN SetWorker(k, [me EXCEPT !.pc = "failed", !.err = r.err])
          ELSE SetWorker(k, [me EXCEPT !.pc = "host_cert", !.host_key = r.ret])
    /\ UNCHANGED <<dir_exists, now, CONFIG, pc, err, locals, call, tampered>>

WorkerCert(k) ==
    /\ Running(k) /\ workers.w[k].pc = "host_cert"
    /\ LET me == workers.w[k]
           r == generate_or_load_server_certificate(fs, CONFIG, CertFile(me.name), ca_cert, ca_key,
                                                    me.host_key, me.names, now) IN
       /\ fs' = r.files
       /\ IF r.err # "none"
          THEN SetWorker(k, [me EXCEPT !.pc = "failed", !.err = r.err])
          ELSE SetWorker(k, [me EXCEPT !.pc = "chain", !.host_cert = r.ret])
    /\ UNCHANGED <<dir_exists, now, CONFIG, pc, err, locals, call, tampered>>

WorkerChain(k) ==
    /\ Running(k) /\ workers.w[k].pc = "chain"
    /\ LET me == workers.w[k] IN
       /\ fs' = write_chain_if_absent(fs, ChainFile(me.name), ca_cert, me.host_cert)
       /\ SetWorker(k, [me EXCEPT !.pc = "done"])
    /\ UNCHANGED <<dir_exists, now, CONFIG, pc, err, locals, call, tampered>>

\* Every iteration has ended.
Join ==
    /\ pc = "forked"
    /\ \A k \in DOMAIN workers.w : workers.w[k].pc \in {"done", "failed"}
    /\ LET failed == {k \in DOMAIN workers.w : workers.w[k].pc = "failed"} IN
       IF failed = {}
       THEN pc' = "done" /\ UNCHANGED err
       ELSE pc' = "failed" /\ err' = workers.w[CHOOSE k \in failed : \A j \in failed : k <= j].err
    /\ UNCHANGED <<fs, dir_exists, now, CONFIG, locals, call, workers, tampered>>

NextAnyOrder ==
    \/ StartRun \/ CaKey \/ CaCert \/ Fork \/ Join \/ Exit
    \/ \E k \in 1..Len(CONFIG.hosts) : WorkerNames(k) \/ WorkerKey(k) \/ WorkerCert(k) \/ WorkerChain(k)

SpecAnyOrder == Init /\ [][NextAnyOrder]_vars

----------------------------------------------------------------------------
\* Properties

\* The primary names of the hosts of the run's configuration.
Configured == {CONFIG.hosts[k].names[1] : k \in 1..Len(CONFIG.hosts)}

\* The SAN entries the configuration asks for: a DNSName "<name>.<domain>" per
\* host name, then an IPAddress per address, in input order.
ExpectedSAN(host, domain) ==
    [k \in 1..Len(host.names) |-> [type |-> "DNSName", value |-> host.names[k] \o "." \o domain]]
    \o [k \in 1..Len(host.ip_addresses) |-> [type |-> "IPAddress", value |-> host.ip_addresses[k]]]

HasCAExtension(cert) ==
    \E k \in 1..Len(cert.extensions) : cert.extensions[k].oid = "basicConstraints"

\* C1: over runs of main() with no deletion from outside, a file that is present
\* keeps its bytes for ever (so each path goes from Absent to Present at most
\* once), and a generate_or_load_* call on a present path writes nothing and
\* returns the stored content (what it returns encodes to the stored bytes).
C1_WriteOnce ==
    [][ /\ \A p \in Paths : exists(fs, p) => fs'[p] = fs[p]
        /\ (pc = "ca_key" /\ exists(fs, CA_KEY_FILE) /\ pc' = "ca_cert")
              => fs' = fs /\ private_bytes(ca_key') = fs[CA_KEY_FILE].blocks
        /\ (pc = "ca_cert" /\ exists(fs, CA_CERT_FILE) /\ pc' = "hosts")
              => fs' = fs /\ public_bytes(ca_cert') = fs[CA_CERT_FILE].blocks
        /\ (pc = "host_key" /\ exists(fs, KeyFile(name)) /\ pc' = "host_cert")
              => fs' = fs /\ private_bytes(host_key') = fs[KeyFile(name)].blocks
        /\ (pc = "host_cert" /\ exists(fs, CertFile(name)) /\ pc' = "chain")
              => fs' = fs /\ public_bytes(host_cert') = fs[CertFile(name)].blocks
      ]_vars

\* C1's case: a second run has loaded the root key and a host key and certificate
\* that the first run generated.
C1_Witness ==
    /\ now = 2 /\ pc = "chain"
    /\ ca_key.id = <<1, CA_KEY_FILE>>
    /\ host_key.id = <<1, KeyFile(name)>>
    /\ host_cert.serial_number = <<1, CertFile(name)>>

\* C2: a chain file, when it is written, is the root certificate's encoding
\* followed by the host certificate's encoding, both as returned in that run; and
\* once written it is never changed, also when ca.cert.pem or <name>.cert.pem was
\* deleted and is generated again.
C2_ChainComposition ==
    [][ \A n \in PrimaryNames :
          /\ exists(fs, ChainFile(n)) => fs'[ChainFile(n)] = fs[ChainFile(n)]
          /\ (~exists(fs, ChainFile(n)) /\ exists(fs', ChainFile(n)))
                => /\ n = name
                   /\ fs'[ChainFile(n)].blocks = public_bytes(ca_cert) \o public_bytes(host_cert)
      ]_vars

\* C2's case: a later run generated the root certificate and a host certificate
\* anew, and the host's chain file still holds the old ones.
C2_Witness ==
    /\ pc = "done"
    /\ \E n \in PrimaryNames :
          /\ exists(fs, ChainFile(n)) /\ exists(fs, CertFile(n)) /\ exists(fs, CA_CERT_FILE)
          /\ n # "ca"
          /\ fs[ChainFile(n)].blocks[1].body.serial_number = <<1, CA_CERT_FILE>>
          /\ fs[ChainFile(n)].blocks[2].body.serial_number = <<1, CertFile(n)>>
          /\ fs[CA_CERT_FILE].blocks[1].body.serial_number = <<2, CA_CERT_FILE>>
          /\ fs[CertFile(n)].blocks[1].body.serial_number = <<2, CertFile(n)>>

\* C3 as stated: a freshly generated host certificate has the bare primary name
\* as its common name, and its SAN is the DNSName "<name>.<domain>" of every host
\* name followed by the IPAddress of every address.
C3_BareCommonName ==
    [][ (pc = "host_cert" /\ ~exists(fs, CertFile(name)) /\ pc' = "chain")
          => /\ host_cert'.subject.common_name = CONFIG.hosts[host_index].names[1]
             /\ host_cert'.extensions =
                   << SubjectAlternativeName(ExpectedSAN(CONFIG.hosts[host_index], CONFIG.domain)) >>
      ]_vars

\* C3 amended: the common name is the primary name with the domain,
\* "<n0>.<domain>", the first SAN entry; the SAN is as stated.
C3_QualifiedCommonName ==
    [][ (pc = "host_cert" /\ ~exists(fs, CertFile(name)) /\ pc' = "chain")
          => /\ host_cert'.subject.common_name = CONFIG.hosts[host_index].names[1] \o "." \o CONFIG.domain
             /\ host_cert'.extensions =
                   << SubjectAlternativeName(ExpectedSAN(CONFIG.hosts[host_index], CONFIG.domain)) >>
      ]_vars

\* C3's case: the certificate of a host with two names and an address was
\* generated in this run.
C3_Witness ==
    /\ pc = "chain"
    /\ Len(CONFIG.hosts[host_index].names) = 2 /\ Len(CONFIG.hosts[host_index].ip_addresses) = 1
    /\ host_cert.serial_number = <<now, CertFile(name)>>
    /\ host_cert.subject.common_name = "foo.local"

\* A direct call whose first name is an address has just been made.
AddressFirstCall == call' # call /\ call'.names[1].kind # "str"

\* C4 as stated: a call whose names[0] is an address fails with InvalidInput and
\* writes no file, whether the certificate file is absent or present.
C4_AlwaysInvalidInput ==
    [][ AddressFirstCall => call'.err = "InvalidInput" /\ fs' = fs ]_vars

\* C4 amended: such a call writes no file; it fails with InvalidInput when the
\* certificate file is absent, and when the file is present it returns the stored
\* certificate without looking at names.
C4_InvalidInputWhenAbsent ==
    [][ AddressFirstCall
          => /\ fs' = fs
             /\ IF exists(fs, call'.certificate_file)
                THEN call'.err = "none" /\ public_bytes(call'.ret) = fs[call'.certificate_file].blocks
                ELSE call'.err = "InvalidInput" /\ call'.ret = None
      ]_vars

\* C4's case: a call with an address first, for an absent file, has failed.
C4_Witness ==
    /\ call # None
    /\ call.names[1].kind # "str"
    /\ call.err = "InvalidInput"
    /\ ~exists(fs, call.certificate_file)

\* C5: when the configuration lacks the naming fields or the host list, the run
\* fails with MissingConfiguration before any file is created; stated for the
\* first run, which starts on an empty directory.
C5_NoArtifactBeforeConfigError ==
    (now = 1 /\ err = "MissingConfiguration") => \A p \in Paths : ~exists(fs, p)

\* C6: the certificate obtained for a configured host has the root certificate's
\* subject as issuer, a public key other than the root's, and no CA extension,
\* whatever the host's primary name.
C6_LeafLinkage ==
    pc = "chain"
      => /\ host_cert.issuer = ca_cert.subject
         /\ host_cert.public_key # ca_cert.public_key
         /\ ~HasCAExtension(host_cert)

\* C7: a freshly generated root certificate is self-signed: issuer = subject, it
\* carries ca_key's public key, its signature verifies against that key, and its
\* BasicConstraints extension marks a CA.
C7_SelfSignedRoot ==
    [][ (pc = "ca_cert" /\ ~exists(fs, CA_CERT_FILE) /\ pc' = "hosts")
          => /\ ca_cert'.issuer = ca_cert'.subject
             /\ ca_cert'.public_key = public_key(ca_key)
             /\ ca_cert'.signature.verifies_with = ca_cert'.public_key
             /\ \E k \in 1..Len(ca_cert'.extensions) :
                   /\ ca_cert'.extensions[k].oid = "basicConstraints"
                   /\ ca_cert'.extensions[k].value.ca
      ]_vars

\* C7's case: the root certificate was generated in this run, with a root key
\* loaded from an earlier run.
C7_Witness ==
    /\ pc = "hosts"
    /\ ca_cert.serial_number = <<now, CA_CERT_FILE>>
    /\ ca_key.id = <<1, CA_KEY_FILE>> /\ now = 2

\* C8: after an exception the run creates and changes no file and executes no
\* further statement: no later host is processed, nothing is retried.
C8_ErrorAborts ==
    [][ (err # "none" /\ pc # "idle") => fs' = fs /\ pc = "failed" /\ pc' = "idle" ]_vars

\* C8's case: a run has failed at its first host, and a second host is configured
\* whose files do not exist.
C8_Witness ==
    /\ pc = "failed" /\ err \in {"ValueError", "InvalidKeyType", "ParseFailure", "KeyError"}
    /\ host_index = 1 /\ Len(CONFIG.hosts) = 2
    /\ ~exists(fs, KeyFile(CONFIG.hosts[2].names[1]))

\* C9: in a run started on an empty directory, for every configured host, a chain
\* file implies the host's certificate file, which implies the host's key file,
\* which implies ca.cert.pem, which implies ca.key.pem.
C9_ArtifactOrder ==
    now = 1 =>
      \A n \in Configured :
        /\ exists(fs, ChainFile(n)) => exists(fs, CertFile(n))
        /\ exists(fs, CertFile(n)) => exists(fs, KeyFile(n))
        /\ exists(fs, KeyFile(n)) => exists(fs, CA_CERT_FILE)
        /\ exists(fs, CA_CERT_FILE) => exists(fs, CA_KEY_FILE)

\* Every iteration has ended without an exception.
AllDone == pc = "forked" /\ \A k \in DOMAIN workers.w : workers.w[k].pc = "done"

\* The iterations in any order left what the loop in input order leaves: the
\* same directory and, for each host, the same key and certificate.
SameAsInInputOrder ==
    LET seq == InInputOrder(workers.from, CONFIG, ca_cert, ca_key, 1, now) IN
    /\ seq.err = "none"
    /\ fs = seq.files
    /\ \A k \in DOMAIN workers.w :
          /\ workers.w[k].host_key = seq.results[k].host_key
          /\ workers.w[k].host_cert = seq.results[k].host_cert

====
